---- MODULE Spec2Model ----
(***************************************************************************)
(* Distance-vector routing tables (setup_routing_tables), the cost sort of *)
(* the report loop and the path walk (find_best_route) of src/src/main.py. *)
(*                                                                         *)
(* A router is its id (its position in the routers list); nieghbors[id] is *)
(* the router's "nieghbors" list of <<router_id, cost>> pairs and          *)
(* routing_table[id][d] the list of <<next_hop, total_cost>> pairs kept    *)
(* for destination d.  The empty sequence stands for a key that is absent  *)
(* from the routing_table dictionary.                                      *)
(***************************************************************************)
EXTENDS Integers, Sequences, FiniteSets, TLC

\* ---------------------------------------------------------------- bounds
NumRouters == 3      \* routers of the enumerated topologies
MaxEdges == 2        \* neighbor entries of an enumerated topology, in total
MaxCost == 1         \* link costs are 1..MaxCost
MaxRuns == 2         \* calls of setup_routing_tables
MaxExtraHops == 2    \* hops the walk is followed beyond the router count

\* ------------------------------------------------------------- constants
\* infinity = pow(10,10) in the source.  It is only ever compared and
\* stored, never added to (the relaxation skips a neighbor whose cost is
\* infinity), so any value above every path sum behaves the same; this one
\* fits the 32-bit integers of the model checker.
infinity == 1000000000
\* the next hop of the seed entry (-1, infinity)
unknown_hop == -1

VARIABLES
    nieghbors,       \* id -> list of <<router_id, cost>>
    routing_table,   \* id -> (destination id -> list of <<next_hop, total_cost>>)
    pc,              \* "ready" | "init" | "seed" | "relax" | "walk"
    destination,     \* setup_routing_tables: the router of the outer loop
    seed_idx,        \* position in destination_nieghbors
    pass,            \* the `for _ in routers` pass, 1..N
    start,           \* the router r of the inner loop
    nb_idx,          \* position in start's nieghbors
    calls,           \* table-changing calls completed so far, in order
    first_tables,    \* routing_table when setup_routing_tables first returned
    src, dest,       \* find_best_route: ids of its arguments
    src_in, dest_in, \* whether the argument is an element of routers
    path, curr,      \* find_best_route locals
    outcome          \* "none" | "path" | "KeyError"

setup_vars == <<destination, seed_idx, pass, start, nb_idx>>
find_vars == <<src, dest, src_in, dest_in, path, curr, outcome>>
vars == <<nieghbors, routing_table, pc, destination, seed_idx, pass, start,
          nb_idx, calls, first_tables, src, dest, src_in, dest_in, path, curr,
          outcome>>

\* ------------------------------------------------------------ topologies
SeedTopology ==
    [id \in 0..5 |->
        CASE id = 0 -> << <<1, 1>>, <<2, 2>> >>
          [] id = 1 -> << <<0, 1>>, <<2, 2>>, <<3, 3>>, <<4, 1>> >>
          [] id = 2 -> << <<0, 2>>, <<1, 2>>, <<4, 3>> >>
          [] id = 3 -> << <<1, 3>>, <<4, 1>>, <<5, 1>> >>
          [] id = 4 -> << <<1, 1>>, <<2, 3>>, <<3, 1>>, <<5, 3>> >>
          [] OTHER  -> << <<3, 1>>, <<4, 3>> >>]

EnumIds == 0..(NumRouters - 1)

EdgeSeqs ==
    UNION {[1..n -> EnumIds \X EnumIds \X (1..MaxCost)] : n \in 0..MaxEdges}

\* the neighbor lists described by a sequence of <<from, to, cost>> entries
TopologyOf(es) ==
    [id \in EnumIds |->
        LET From(e) == e[1] = id
            own == SelectSeq(es, From)
        IN  [i \in 1..Len(own) |-> <<own[i][2], own[i][3]>>]]

Topologies == {TopologyOf(es) : es \in EdgeSeqs} \cup {SeedTopology}

\* --------------------------------------------------------------- helpers
Ids == DOMAIN nieghbors
N == Cardinality(Ids)

\* routers[i] for a Python index i: a negative index counts from the end
PyIndex(i) == IF i < 0 THEN N + i ELSE i

EmptyTables == [id \in Ids |-> [d \in Ids |-> << >>]]

Init ==
    /\ nieghbors \in Topologies
    /\ routing_table = EmptyTables
    /\ pc = "ready"
    /\ destination = 0 /\ seed_idx = 0 /\ pass = 0 /\ start = 0 /\ nb_idx = 0
    /\ calls = << >>
    /\ first_tables = EmptyTables
    /\ src = 0 /\ dest = 0 /\ src_in = TRUE /\ dest_in = TRUE
    /\ path = << >> /\ curr = 0 /\ outcome = "none"

\* ------------------------------------------------- setup_routing_tables
Runs == Cardinality({i \in 1..Len(calls) : calls[i] = "setup"})

\* SeedEntry without the reset: a list of an earlier run is kept
SeedEntry_Kept(id, d, old) ==
    IF old # << >> THEN old
    ELSE IF id = d THEN << <<d, 0>> >> ELSE << <<unknown_hop, infinity>> >>

\* lines 252 and 259-261: the list a router's entry for destination d is
\* reset to, whatever it held before
SeedEntry(id, d, old) ==
    IF id = d THEN << <<d, 0>> >> ELSE << <<unknown_hop, infinity>> >>

\* lines 268-274: the cost of the first entry naming d in the neighbor list
\* nbs, infinity when there is none
CostToDestination(nbs, d) ==
    LET hits == {i \in 1..Len(nbs) : nbs[i][1] = d}
    IN  IF hits = {} THEN infinity
        ELSE nbs[CHOOSE i \in hits : \A j \in hits : i <= j][2]

\* the element read with [-1]
LastOf(hops) == hops[Len(hops)]

\* line 315: whether the route through a neighbor is appended
Better(candidate_cost, start_to_destination_cost) ==
    candidate_cost < start_to_destination_cost

\* lines 291-293 and 302: the first router at or after position from whose
\* inner loop has an iteration (not the destination, a non-empty neighbor
\* list); N when there is none
RECURSIVE NextStart(_, _)
NextStart(d, from) ==
    IF from >= N THEN N
    ELSE IF from # d /\ Len(nieghbors[from]) > 0 THEN from
    ELSE NextStart(d, from + 1)

\* control after the relaxation passes of destination d: the next
\* destination of the outer loop (line 248), or the return (line 327)
AfterDestination(d) ==
    IF d + 1 < N
    THEN [pc |-> "init", destination |-> d + 1, seed_idx |-> 0, pass |-> 0,
          start |-> 0, nb_idx |-> 0]
    ELSE [pc |-> "ready", destination |-> 0, seed_idx |-> 0, pass |-> 0,
          start |-> 0, nb_idx |-> 0]

\* control at the first iteration of the relaxation loops (line 283)
FirstRelax(d) ==
    IF NextStart(d, 0) < N
    THEN [pc |-> "relax", destination |-> d, seed_idx |-> 0, pass |-> 1,
          start |-> NextStart(d, 0), nb_idx |-> 1]
    ELSE AfterDestination(d)

\* control after iteration (p, r, i) of the loops of lines 283, 291, 302
AfterRelax(d, p, r, i) ==
    IF i < Len(nieghbors[r])
    THEN [pc |-> "relax", destination |-> d, seed_idx |-> 0, pass |-> p,
          start |-> r, nb_idx |-> i + 1]
    ELSE IF NextStart(d, r + 1) < N
    THEN [pc |-> "relax", destination |-> d, seed_idx |-> 0, pass |-> p,
          start |-> NextStart(d, r + 1), nb_idx |-> 1]
    ELSE IF p < N
    THEN [pc |-> "relax", destination |-> d, seed_idx |-> 0, pass |-> p + 1,
          start |-> NextStart(d, 0), nb_idx |-> 1]
    ELSE AfterDestination(d)

\* control after the k-th iteration of the seeding loop (line 266)
AfterSeed(d, k) ==
    IF k < Len(nieghbors[d])
    THEN [pc |-> "seed", destination |-> d, seed_idx |-> k + 1, pass |-> 0,
          start |-> 0, nb_idx |-> 0]
    ELSE FirstRelax(d)

\* control after the reset of lines 252-261
AfterInit(d) ==
    IF Len(nieghbors[d]) > 0
    THEN [pc |-> "seed", destination |-> d, seed_idx |-> 1, pass |-> 0,
          start |-> 0, nb_idx |-> 0]
    ELSE FirstRelax(d)

\* moves to control state c with tables t; a return (line 327) is recorded
Goto(c, t) ==
    /\ pc' = c.pc
    /\ destination' = c.destination
    /\ seed_idx' = c.seed_idx
    /\ pass' = c.pass
    /\ start' = c.start
    /\ nb_idx' = c.nb_idx
    /\ routing_table' = t
    /\ calls' = IF c.pc = "ready" THEN Append(calls, "setup") ELSE calls
    /\ first_tables' = IF c.pc = "ready" /\ Runs = 0 THEN t ELSE first_tables

\* the locals and the result of an earlier find_best_route call are gone
ResetFind ==
    /\ src' = 0 /\ dest' = 0 /\ src_in' = TRUE /\ dest_in' = TRUE
    /\ path' = << >> /\ curr' = 0 /\ outcome' = "none"

\* lines 204, 242-248: the call; the list is never empty here
SetupCall ==
    /\ pc = "ready"
    /\ Runs < MaxRuns
    /\ N # 0
    /\ pc' = "init"
    /\ destination' = 0
    /\ ResetFind
    /\ UNCHANGED <<nieghbors, routing_table, seed_idx, pass, start, nb_idx,
                   calls, first_tables>>

\* lines 248-264: the entries for the destination are reset
DestInit ==
    /\ pc = "init"
    /\ LET d == destination
           t == [id \in Ids |->
                    [routing_table[id] EXCEPT
                        ![d] = SeedEntry(id, d, routing_table[id][d])]]
       IN  Goto(AfterInit(d), t)
    /\ UNCHANGED <<nieghbors, find_vars>>

\* lines 266-281: one neighbor of the destination gets the direct route
SeedStep ==
    /\ pc = "seed"
    /\ LET d == destination
           _r == nieghbors[d][seed_idx]
           cost_to_destination == CostToDestination(nieghbors[_r[1]], d)
           t == [routing_table EXCEPT
                    ![_r[1]][d] = Append(@, <<d, cost_to_destination>>)]
       IN  Goto(AfterSeed(d, seed_idx), t)
    /\ UNCHANGED <<nieghbors, find_vars>>

\* lines 302-325: router start asks one neighbor for a better route
RelaxStep ==
    /\ pc = "relax"
    /\ LET d == destination
           nieghbor == nieghbors[start][nb_idx]
           nieghbor_to_destination_cost ==
               LastOf(routing_table[nieghbor[1]][d])[2]
           start_to_nieghbor_cost == nieghbor[2]
           start_to_destination_cost == LastOf(routing_table[start][d])[2]
           candidate == start_to_nieghbor_cost + nieghbor_to_destination_cost
           t == IF nieghbor_to_destination_cost = infinity
                THEN routing_table
                ELSE IF Better(candidate, start_to_destination_cost)
                THEN [routing_table EXCEPT
                         ![start][d] = Append(@, <<nieghbor[1], candidate>>)]
                ELSE routing_table
       IN  Goto(AfterRelax(d, pass, start, nb_idx), t)
    /\ UNCHANGED <<nieghbors, find_vars>>

\* ------------------------------------------ the report loop, lines 376-390
\* e placed after every element of the sorted list s that costs no more
RECURSIVE InsertByCost(_, _)
InsertByCost(e, s) ==
    IF s = << >> THEN <<e>>
    ELSE IF e[2] < LastOf(s)[2]
    THEN Append(InsertByCost(e, SubSeq(s, 1, Len(s) - 1)), LastOf(s))
    ELSE Append(s, e)

\* line 384: hops.sort(key=lambda x:x[1]), a stable sort by cost
RECURSIVE SortByCost(_)
SortByCost(hops) ==
    IF hops = << >> THEN << >>
    ELSE InsertByCost(LastOf(hops), SortByCost(SubSeq(hops, 1, Len(hops) - 1)))

\* lines 376-390: every list a table holds is sorted in place
SortTables ==
    /\ pc = "ready"
    /\ calls # << >>
    /\ LastOf(calls) = "setup"
    /\ routing_table' =
           [id \in Ids |-> [d \in Ids |-> SortByCost(routing_table[id][d])]]
    /\ calls' = Append(calls, "sort")
    /\ ResetFind
    /\ UNCHANGED <<nieghbors, pc, setup_vars, first_tables>>

NextSetup == SetupCall \/ DestInit \/ SeedStep \/ RelaxStep \/ SortTables

SpecSetup == Init /\ [][NextSetup]_vars

\* ------------------------------------------------------- find_best_route
\* the [0][0] of lines 348 and 351: the next hop of the first element of
\* the list kept for d in the table tbl
FirstHop(tbl, d) == tbl[d][1][1]

\* lines 341-348.  The membership test of line 343 only prints: the call
\* goes on whatever it finds.  An argument that is not an element of
\* routers is a copy of routers[s] (of routers[t]) that differs from it in
\* a field the function does not read, such as "type".
FindCall(s, s_in, t, t_in) ==
    /\ pc = "ready"
    /\ src' = s /\ src_in' = s_in
    /\ dest' = t /\ dest_in' = t_in
    /\ path' = <<s>>
    /\ IF routing_table[s][t] = << >>
       THEN /\ outcome' = "KeyError"
            /\ curr' = 0
            /\ pc' = "ready"
       ELSE /\ outcome' = "none"
            /\ curr' = FirstHop(routing_table[s], t)
            /\ pc' = "walk"
    /\ UNCHANGED <<nieghbors, routing_table, setup_vars, calls, first_tables>>

\* lines 349-351: one iteration of the while loop
FindStep ==
    /\ pc = "walk"
    /\ curr # dest
    /\ Len(path) < N + MaxExtraHops + 1
    /\ path' = Append(path, curr)
    /\ curr' = FirstHop(routing_table[PyIndex(curr)], dest)
    /\ UNCHANGED <<nieghbors, routing_table, pc, setup_vars, calls,
                   first_tables, src, dest, src_in, dest_in, outcome>>

\* lines 353-355: the loop is left and the path returned
FindReturn ==
    /\ pc = "walk"
    /\ curr = dest
    /\ path' = Append(path, dest)
    /\ outcome' = "path"
    /\ pc' = "ready"
    /\ UNCHANGED <<nieghbors, routing_table, setup_vars, calls, first_tables,
                   src, dest, src_in, dest_in, curr>>

Find ==
    \E s \in Ids, t \in Ids, s_in \in BOOLEAN, t_in \in BOOLEAN :
        FindCall(s, s_in, t, t_in)

Next ==
    \/ SetupCall \/ DestInit \/ SeedStep \/ RelaxStep \/ SortTables
    \/ Find \/ FindStep \/ FindReturn

Spec == Init /\ [][Next]_vars

\* ------------------------------------------------- reference definitions
Min(S) == CHOOSE x \in S : \A y \in S : x <= y

\* the lowest total_cost of a non-empty list of hops
MinCost(hops) == Min({hops[i][2] : i \in 1..Len(hops)})

IsSortedByCost(hops) ==
    \A i \in 1..Len(hops), j \in 1..Len(hops) : i < j => hops[i][2] <= hops[j][2]

\* whether b appears in router a's neighbor list
IsEdge(a, b) ==
    /\ a \in Ids
    /\ \E i \in 1..Len(nieghbors[a]) : nieghbors[a][i][1] = b

\* the cost of the link from a to b: the cheapest entry naming b
EdgeCost(a, b) ==
    Min({nieghbors[a][i][2] : i \in {j \in 1..Len(nieghbors[a]) :
                                        nieghbors[a][j][1] = b}})

\* the cheapest way from r to d over at most k links of the directed graph
\* of the neighbor lists, infinity when there is none
RECURSIVE DistWithin(_, _, _)
DistWithin(r, d, k) ==
    IF r = d THEN 0
    ELSE IF k = 0 THEN infinity
    ELSE LET via == {nieghbors[r][i][2] + DistWithin(nieghbors[r][i][1], d, k - 1) :
                        i \in {j \in 1..Len(nieghbors[r]) :
                                  DistWithin(nieghbors[r][j][1], d, k - 1) < infinity}}
         IN  IF via = {} THEN infinity ELSE Min(via)

Distance(r, d) == DistWithin(r, d, N - 1)

Reachable(r, d) == Distance(r, d) < infinity

\* the accumulated link cost of a list of ids, infinity when two
\* consecutive ids are not linked
RECURSIVE PathCost(_)
PathCost(p) ==
    IF Len(p) < 2 THEN 0
    ELSE IF ~IsEdge(p[1], p[2]) THEN infinity
    ELSE LET rest == PathCost(Tail(p))
         IN  IF rest = infinity THEN infinity
             ELSE EdgeCost(p[1], p[2]) + rest

IsRoute(p) == \A i \in 1..(Len(p) - 1) : IsEdge(p[i], p[i + 1])

\* setup_routing_tables has returned and nothing has touched the tables since
JustReturned == pc = "ready" /\ calls # << >> /\ LastOf(calls) = "setup"

\* the report loop has sorted the tables of the latest run
JustSorted == calls # << >> /\ LastOf(calls) = "sort"

\* a find_best_route call on elements of routers is under way or over
CalledOnMembers == path # << >> /\ src_in /\ dest_in

NoSelfNeighbor ==
    \A id \in Ids : \A i \in 1..Len(nieghbors[id]) : nieghbors[id][i][1] # id

\* ---------------------------------------------------------------- claims

\* C1: when setup_routing_tables has returned, for every router r and every
\* destination d # r the lowest total_cost in r.routing_table[d] is the
\* shortest-path distance from r to d in the directed graph of the neighbor
\* lists, and is infinity exactly when there is no path.
C1_LowestCostIsDistance ==
    JustReturned =>
        \A r \in Ids, d \in Ids :
            r # d => MinCost(routing_table[r][d]) = Distance(r, d)

\* C1 holds when no router names itself in its own neighbor list.
C1_WithoutSelfNeighbor ==
    (JustReturned /\ NoSelfNeighbor) =>
        \A r \in Ids, d \in Ids :
            r # d => MinCost(routing_table[r][d]) = Distance(r, d)

\* C2: for src and dest in the same connected component (src = dest
\* included), find_best_route on the computed and sorted tables returns a
\* path from src.id to dest.id whose consecutive ids are linked.
C2_PathIsRoute ==
    (CalledOnMembers /\ JustSorted /\ outcome = "path" /\ Reachable(src, dest)) =>
        /\ path[1] = src
        /\ LastOf(path) = dest
        /\ IsRoute(path)

\* C2 holds for src # dest.
C2_DistinctEndpoints ==
    (CalledOnMembers /\ JustSorted /\ outcome = "path" /\ Reachable(src, dest)
        /\ src # dest) =>
        /\ path[1] = src
        /\ LastOf(path) = dest
        /\ IsRoute(path)

\* C3: for dest reachable from src (and other than src), the path
\* find_best_route returns on the computed and sorted tables costs, link by
\* link, the best cost recorded in src.routing_table[dest.id]; on the seed
\* topology the path from 0 to 5 is [0,1,4,3,5] and costs 4.
C3_PathCostIsBestCost ==
    (CalledOnMembers /\ JustSorted /\ outcome = "path" /\ src # dest
        /\ Reachable(src, dest)) =>
        /\ PathCost(path) = MinCost(routing_table[src][dest])
        /\ (nieghbors = SeedTopology /\ src = 0 /\ dest = 5) =>
               (path = <<0, 1, 4, 3, 5>> /\ PathCost(path) = 4)

\* C3 holds when no router names itself in its own neighbor list.
C3_WithoutSelfNeighbor ==
    (CalledOnMembers /\ JustSorted /\ outcome = "path" /\ src # dest
        /\ Reachable(src, dest) /\ NoSelfNeighbor) =>
        /\ PathCost(path) = MinCost(routing_table[src][dest])
        /\ (nieghbors = SeedTopology /\ src = 0 /\ dest = 5) =>
               (path = <<0, 1, 4, 3, 5>> /\ PathCost(path) = 4)

\* C4: when src's best entry for dest is the seed entry (-1, infinity),
\* find_best_route ends in UnreachableDestinationError: it returns no path,
\* never puts -1 on the path and never indexes routers[-1].
C4_UnreachableIsAnError ==
    (CalledOnMembers /\ JustSorted
        /\ routing_table[src][dest][1] = <<unknown_hop, infinity>>)
    => /\ \A i \in 1..Len(path) : path[i] # unknown_hop
       /\ outcome # "path"
       /\ pc = "ready" => outcome = "UnreachableDestinationError"

\* C5: the walk of find_best_route (here on computed and sorted tables)
\* appends at most as many hops as there are routers; past that the call
\* ends with an error.
C5_WalkIsBounded ==
    (CalledOnMembers /\ JustSorted /\ outcome # "path") => Len(path) - 1 <= N

\* C6: when setup_routing_tables returns, every list of every table is
\* sorted ascending by total_cost.
C6_SortedAtReturn ==
    JustReturned =>
        \A r \in Ids, d \in Ids : IsSortedByCost(routing_table[r][d])

\* C7: a router's own entry, once set, is exactly [(r.id, 0)] whatever the
\* neighbor lists hold; no step appends to it.
C7_SelfEntry ==
    \A r \in Ids :
        routing_table[r][r] # << >> => routing_table[r][r] = << <<r, 0>> >>

\* C7 holds when no router names itself in its own neighbor list.
C7_WithoutSelfNeighbor ==
    NoSelfNeighbor =>
        \A r \in Ids :
            routing_table[r][r] # << >> => routing_table[r][r] = << <<r, 0>> >>

\* C8: a second run of setup_routing_tables on the same topology, with or
\* without the sort in between, leaves in every r.routing_table[d] the
\* same lowest cost, the same best next hop and the same candidates as the
\* first run: nothing of the first run carries over.
C8_SecondRunSameTables ==
    (pc = "ready" /\ Runs >= 2) =>
        \A r \in Ids, d \in Ids :
            /\ MinCost(routing_table[r][d]) = MinCost(first_tables[r][d])
            /\ SortByCost(routing_table[r][d])[1] = SortByCost(first_tables[r][d])[1]
            /\ SortByCost(routing_table[r][d]) = SortByCost(first_tables[r][d])

\* C8's case: two runs with the sort in between, on tables where the
\* relaxation appended a route.
C8_Witness ==
    /\ pc = "ready"
    /\ calls = <<"setup", "sort", "setup">>
    /\ \E r \in Ids, d \in Ids :
           /\ Len(routing_table[r][d]) >= 3
           /\ ~IsSortedByCost(routing_table[r][d])

\* C9: with src or dest not an element of routers, find_best_route fails
\* with UnknownRouterError at once: no path, no routing table read.
C9_UnknownRouterIsAnError ==
    (calls # << >> /\ path # << >> /\ ~(src_in /\ dest_in)) =>
        /\ pc = "ready"
        /\ outcome = "UnknownRouterError"
        /\ Len(path) <= 1

\* C10: at every point of setup_routing_tables, for the destination d being
\* processed and every router r, the last element of r.routing_table[d] has
\* the lowest total_cost of the list.
C10_LastIsLowest ==
    /\ pc \in {"seed", "relax"} =>
           \A r \in Ids :
               LastOf(routing_table[r][destination])[2]
                   = MinCost(routing_table[r][destination])
    /\ JustReturned =>
           \A r \in Ids, d \in Ids :
               LastOf(routing_table[r][d])[2] = MinCost(routing_table[r][d])

\* C10 holds for every router other than the destination.
C10_OtherRouters ==
    /\ pc \in {"seed", "relax"} =>
           \A r \in Ids \ {destination} :
               LastOf(routing_table[r][destination])[2]
                   = MinCost(routing_table[r][destination])
    /\ JustReturned =>
           \A r \in Ids, d \in Ids :
               r # d => LastOf(routing_table[r][d])[2] = MinCost(routing_table[r][d])
====
